---- MODULE Spec2Model ----
(***************************************************************************)
(* pkg/infra/log/log.go: the process-wide logging registry (Root.loggers,  *)
(* loggersToClose, loggersToReload, filters), the configuration loader     *)
(* ReadLoggingConfig, Close, Reload, the named-logger constructor New and  *)
(* the fan-out dispatch of MultiLoggers.                                   *)
(*                                                                         *)
(* Strings are sequences of one-character strings, so that ToLower,        *)
(* TrimSpace and Split are computed and not assumed.                       *)
(***************************************************************************)
EXTENDS Integers, Sequences, FiniteSets, TLC

VARIABLES
  Root_loggers,     \* Root.loggers: sequence of LogWithFilters
  loggersToClose,   \* sequence of backends (handler.val) that implement Close
  loggersToReload,  \* sequence of backends that implement Reload
  filters,          \* the package-level filter table: name -> level.Option
  nextId,           \* identity of the next backend to be constructed
  closeCount,       \* closeCount[id]: how often backend id had Close() invoked
  ml,               \* the MultiLoggers value the last New() returned
  last,             \* what the last completed call did and returned
  pc,               \* "idle", "loop" (a load is between two modes) or "crashed"
  ld,               \* the locals of the load in flight
  seen              \* Root.loggers as read by New() calls during the load in flight

vars == <<Root_loggers, loggersToClose, loggersToReload, filters, nextId,
          closeCount, ml, last, pc, ld, seen>>

-----------------------------------------------------------------------------
(* Bounds of the model *)

MaxModes == 2      \* longest list of enabled modes passed to one load
MaxHandles == 3    \* backends constructed over a run of Spec or MergeSpec
MaxSinks == 2      \* backends constructed over a run of LogSpec
MaxFilterStrs == 2 \* longest list of filter strings passed to getFilters

-----------------------------------------------------------------------------
(* Strings *)

Range(s) == { s[i] : i \in DOMAIN s }

Str_log == <<"l","o","g">>
Str_console == <<"c","o","n","s","o","l","e">>
Str_file == <<"f","i","l","e">>
Str_file_sp == <<" ","f","i","l","e">>
Str_syslog == <<"s","y","s","l","o","g">>
Str_smtp == <<"s","m","t","p">>
Str_trace == <<"t","r","a","c","e">>
Str_debug == <<"d","e","b","u","g">>
Str_info == <<"i","n","f","o">>
Str_warn == <<"w","a","r","n">>
Str_error == <<"e","r","r","o","r">>
Str_critical == <<"c","r","i","t","i","c","a","l">>
Str_DEBUG == <<"D","E","B","U","G">>
Str_bogus == <<"b","o","g","u","s">>
Str_empty == << >>

UpperCase == <<"A","B","C","D","E","F","G","H","I","J","K","L","M",
               "N","O","P","Q","R","S","T","U","V","W","X","Y","Z">>
LowerCase == <<"a","b","c","d","e","f","g","h","i","j","k","l","m",
               "n","o","p","q","r","s","t","u","v","w","x","y","z">>

\* the lower-case letter of every upper-case letter
LowerOf ==
  [c \in Range(UpperCase) |-> LowerCase[CHOOSE i \in DOMAIN UpperCase : UpperCase[i] = c]]

\* the upper-case letter of every lower-case letter
UpperOf ==
  [c \in Range(LowerCase) |-> UpperCase[CHOOSE i \in DOMAIN LowerCase : LowerCase[i] = c]]

\* s in upper case, and s with an upper-case first letter
AllUpper(s) == [i \in DOMAIN s |-> IF s[i] \in DOMAIN UpperOf THEN UpperOf[s[i]] ELSE s[i]]
Capitalized(s) == [i \in DOMAIN s |-> IF i = 1 THEN AllUpper(s)[i] ELSE s[i]]

\* strings.ToLower, one character
LowerChar(c) == IF c \in DOMAIN LowerOf THEN LowerOf[c] ELSE c

\* strings.ToLower
ToLower(s) == [i \in DOMAIN s |-> LowerChar(s[i])]

\* strings.TrimSpace
RECURSIVE TrimSpace(_)
TrimSpace(s) ==
  IF s = << >> THEN s
  ELSE IF Head(s) = " " THEN TrimSpace(Tail(s))
  ELSE IF s[Len(s)] = " " THEN TrimSpace(SubSeq(s, 1, Len(s) - 1))
  ELSE s

\* strings.Split(s, ":"): the pieces of s between the separators
RECURSIVE SplitFrom(_, _, _)
SplitFrom(s, i, cur) ==
  IF i > Len(s) THEN <<cur>>
  ELSE IF s[i] = ":" THEN <<cur>> \o SplitFrom(s, i + 1, << >>)
  ELSE SplitFrom(s, i + 1, Append(cur, s[i]))

Split(s) == SplitFrom(s, 1, << >>)

-----------------------------------------------------------------------------
(* Level policy *)

\* level.Option, as the lowest severity it lets through
AllowDebug == 1
AllowInfo == 2
AllowWarn == 3
AllowError == 4

\* the severities of the four dispatch methods
DebugValue == 1
InfoValue == 2
WarnValue == 3
ErrorValue == 4

Severities == {DebugValue, InfoValue, WarnValue, ErrorValue}

logLevels ==
  (Str_trace :> AllowDebug) @@ (Str_debug :> AllowDebug) @@
  (Str_info :> AllowInfo) @@ (Str_warn :> AllowWarn) @@
  (Str_error :> AllowError) @@ (Str_critical :> AllowError)

getLogLevelFromString(levelName) ==
  IF levelName \in DOMAIN logLevels THEN logLevels[levelName] ELSE AllowError

\* the number of "Unknown log level" diagnostics getLogLevelFromString emits
UnknownLevelDiagnostics(levelName) ==
  IF levelName \in DOMAIN logLevels THEN 0 ELSE 1

\* the filter map as it would be if the first string with a name won
RECURSIVE getFiltersFirstWins(_, _, _)
getFiltersFirstWins(filterStrArray, i, filterMap) ==
  IF i > Len(filterStrArray) THEN filterMap
  ELSE LET parts == Split(filterStrArray[i])
       IN IF Len(parts) > 1
          THEN getFiltersFirstWins(filterStrArray, i + 1,
                 filterMap @@ (parts[1] :> getLogLevelFromString(parts[2])))
          ELSE getFiltersFirstWins(filterStrArray, i + 1, filterMap)

\* the filter map of a list of filter strings, read left to right
RECURSIVE getFiltersFrom(_, _, _)
getFiltersFrom(filterStrArray, i, filterMap) ==
  IF i > Len(filterStrArray) THEN filterMap
  ELSE LET parts == Split(filterStrArray[i])
       IN IF Len(parts) > 1
          THEN getFiltersFrom(filterStrArray, i + 1,
                 (parts[1] :> getLogLevelFromString(parts[2])) @@ filterMap)
          ELSE getFiltersFrom(filterStrArray, i + 1, filterMap)

EmptyMap == [k \in {} |-> AllowError]

getFilters(filterStrArray) == getFiltersFrom(filterStrArray, 1, EmptyMap)

\* the number of "Unknown log level" diagnostics getFilters emits from
\* position i on: one for each string with a separator whose level
\* getLogLevelFromString does not find
RECURSIVE getFiltersDiagnostics(_, _)
getFiltersDiagnostics(filterStrArray, i) ==
  IF i > Len(filterStrArray) THEN 0
  ELSE LET parts == Split(filterStrArray[i])
       IN IF Len(parts) > 1
          THEN UnknownLevelDiagnostics(parts[2]) + getFiltersDiagnostics(filterStrArray, i + 1)
          ELSE getFiltersDiagnostics(filterStrArray, i + 1)

\* level.NewFilter(next, option): whether an event of severity sev gets to next
LevelAllowed(sev, option) == sev >= option

-----------------------------------------------------------------------------
(* Errors and backends *)

\* an error value is <<kind, n>>; Nil is Go's nil error
Nil == <<"nil", 0>>
Running == <<"running", 0>>

\* handler.val: the backend of one sink
Backend(kind, id) == [kind |-> kind, id |-> id]

Ids(list) == { list[i].id : i \in DOMAIN list }

-----------------------------------------------------------------------------
(* Close and Reload *)

\* Close() as it would be if it returned at the first failing backend
RECURSIVE CloseLoopFailFast(_, _, _, _, _)
CloseLoopFailFast(list, i, err, invoked, failing) ==
  IF i > Len(list) THEN [err |-> err, invoked |-> invoked]
  ELSE IF list[i].id \in failing
       THEN [err |-> <<"close", list[i].id>>, invoked |-> Append(invoked, list[i])]
       ELSE CloseLoopFailFast(list, i + 1, err, Append(invoked, list[i]), failing)

\* the loop of Close(): failing is the set of backends whose Close() returns
\* an error; the result is the error kept and the backends invoked, in order
RECURSIVE CloseLoop(_, _, _, _, _)
CloseLoop(list, i, err, invoked, failing) ==
  IF i > Len(list) THEN [err |-> err, invoked |-> invoked]
  ELSE LET e == IF list[i].id \in failing THEN <<"close", list[i].id>> ELSE Nil
       IN CloseLoop(list, i + 1,
                    IF e # Nil /\ err = Nil THEN e ELSE err,
                    Append(invoked, list[i]), failing)

\* Reload() as it would be if it went on after a failure, as Close() does
RECURSIVE ReloadLoopBestEffort(_, _, _, _)
ReloadLoopBestEffort(list, i, invoked, failing) ==
  IF i > Len(list)
  THEN [err |-> IF \E j \in DOMAIN list : list[j].id \in failing
                THEN <<"reload", list[CHOOSE j \in DOMAIN list :
                                       /\ list[j].id \in failing
                                       /\ \A k \in 1..(j - 1) : list[k].id \notin failing].id>>
                ELSE Nil,
        invoked |-> invoked]
  ELSE ReloadLoopBestEffort(list, i + 1, Append(invoked, list[i]), failing)

\* the loop of Reload(): returns at the first backend whose Reload() fails
RECURSIVE ReloadLoop(_, _, _, _)
ReloadLoop(list, i, invoked, failing) ==
  IF i > Len(list) THEN [err |-> Nil, invoked |-> invoked]
  ELSE IF list[i].id \in failing
       THEN [err |-> <<"reload", list[i].id>>, invoked |-> Append(invoked, list[i])]
       ELSE ReloadLoop(list, i + 1, Append(invoked, list[i]), failing)

\* closeCount after Close() was invoked on the backends of invoked
Counted(count, invoked) ==
  [id \in DOMAIN count |-> count[id] + Cardinality({ i \in DOMAIN invoked : invoked[i].id = id })]

-----------------------------------------------------------------------------
(* The configuration file (cfg *ini.File)                                  *)
(*   secs     the names of the sections it has                             *)
(*   level    section name -> the value of its key "level" ("" when unset) *)
(*   filters  section name -> util.SplitString of its key "filters"        *)

SecName(mode) == Str_log \o <<".">> \o mode

\* cfg.Section(key).Key("level").MustString(defaultName)
LevelKey(cfg, key, defaultName) ==
  IF key \in DOMAIN cfg.level /\ cfg.level[key] # Str_empty
  THEN cfg.level[key] ELSE defaultName

\* util.SplitString(cfg.Section(key).Key("filters").String())
FiltersKey(cfg, key) ==
  IF key \in DOMAIN cfg.filters THEN cfg.filters[key] ELSE << >>

getLogLevelFromConfig(key, defaultName, cfg) ==
  LET levelName == ToLower(LevelKey(cfg, key, defaultName))
  IN [name |-> levelName, level |-> getLogLevelFromString(levelName)]

-----------------------------------------------------------------------------
(* ReadLoggingConfig *)

\* the join as it would be if the defaults won over the mode's entries
JoinFiltersDefaultsWin(modeFilters, defaultFilters) ==
  [k \in DOMAIN modeFilters \cup DOMAIN defaultFilters |->
     IF k \in DOMAIN defaultFilters THEN defaultFilters[k] ELSE modeFilters[k]]

\* "join default filters and mode filters together": the mode's entries win
JoinFilters(modeFilters, defaultFilters) ==
  [k \in DOMAIN modeFilters \cup DOMAIN defaultFilters |->
     IF k \in DOMAIN modeFilters THEN modeFilters[k] ELSE defaultFilters[k]]

\* "copy joined default + mode filters into filters": entries already there stay
CopyFilters(global, modeFilters) ==
  [k \in DOMAIN global \cup DOMAIN modeFilters |->
     IF k \in DOMAIN global THEN global[k] ELSE modeFilters[k]]

\* the branch of the switch on mode: the kind of backend it builds, "none"
\* when no case matches and handler.val stays nil
KindOf(mode) ==
  CASE mode = Str_console -> "console"
    [] mode = Str_file -> "file"
    [] mode = Str_syslog -> "syslog"
    [] OTHER -> "none"

\* the iteration as it would be if a mode without a case were skipped
LoadModeSkipping(reg, i, rawMode, cfg, env, defaultLevelName, defaultFilters) ==
  LET mode == TrimSpace(rawMode)
      sec == SecName(mode)
      kind == KindOf(mode)
      val == Backend(kind, reg.nextId)
      handler == [val |-> val,
                  filters |-> JoinFilters(getFilters(FiltersKey(cfg, sec)), defaultFilters),
                  maxLevel |-> getLogLevelFromConfig(sec, defaultLevelName, cfg).level]
  IN IF sec \notin cfg.secs THEN [reg EXCEPT !.ret = <<"nosection", i>>]
     ELSE IF kind = "file" /\ i \in env.mkdir THEN [reg EXCEPT !.ret = <<"mkdir", i>>]
     ELSE IF kind = "file" /\ i \in env.init THEN [reg EXCEPT !.ret = <<"init", i>>]
     ELSE IF kind = "none" THEN reg
     ELSE [loggers |-> Append(reg.loggers, handler),
           toClose |-> IF kind \in {"file", "syslog"}
                       THEN Append(reg.toClose, val) ELSE reg.toClose,
           toReload |-> IF kind = "file"
                        THEN Append(reg.toReload, val) ELSE reg.toReload,
           filters |-> CopyFilters(reg.filters, handler.filters),
           nextId |-> reg.nextId + 1,
           ret |-> Running]
\* the iteration as it would be if the syslog backend were not registered
\* for Close()
LoadModeSyslogUnregistered(reg, i, rawMode, cfg, env, defaultLevelName, defaultFilters) ==
  LET mode == TrimSpace(rawMode)
      sec == SecName(mode)
      leveloption == getLogLevelFromConfig(sec, defaultLevelName, cfg).level
      modeFilters == JoinFilters(getFilters(FiltersKey(cfg, sec)), defaultFilters)
      kind == KindOf(mode)
      val == Backend(kind, reg.nextId)
      handler == [val |-> val, filters |-> modeFilters, maxLevel |-> leveloption]
  IN IF sec \notin cfg.secs THEN [reg EXCEPT !.ret = <<"nosection", i>>]
     ELSE IF kind = "file" /\ i \in env.mkdir THEN [reg EXCEPT !.ret = <<"mkdir", i>>]
     ELSE IF kind = "file" /\ i \in env.init THEN [reg EXCEPT !.ret = <<"init", i>>]
     ELSE IF kind = "none" THEN [reg EXCEPT !.ret = <<"panic", i>>]
     ELSE [loggers |-> Append(reg.loggers, handler),
           toClose |-> IF kind \in {"file"}
                       THEN Append(reg.toClose, val) ELSE reg.toClose,
           toReload |-> IF kind = "file"
                        THEN Append(reg.toReload, val) ELSE reg.toReload,
           filters |-> CopyFilters(reg.filters, modeFilters),
           nextId |-> reg.nextId + 1,
           ret |-> Running]

\* One iteration of the loop over modes, on the registry
\*   reg = [loggers, toClose, toReload, filters, nextId, ret].
\* i is the position of rawMode in modes; env.mkdir and env.init are the
\* positions at which os.MkdirAll and fileHandler.Init() fail.
LoadMode(reg, i, rawMode, cfg, env, defaultLevelName, defaultFilters) ==
  LET mode == TrimSpace(rawMode)
      sec == SecName(mode)
      leveloption == getLogLevelFromConfig(sec, defaultLevelName, cfg).level
      modeFilters == JoinFilters(getFilters(FiltersKey(cfg, sec)), defaultFilters)
      kind == KindOf(mode)
      val == Backend(kind, reg.nextId)
      handler == [val |-> val, filters |-> modeFilters, maxLevel |-> leveloption]
  IN IF sec \notin cfg.secs THEN [reg EXCEPT !.ret = <<"nosection", i>>]
     ELSE IF kind = "file" /\ i \in env.mkdir THEN [reg EXCEPT !.ret = <<"mkdir", i>>]
     ELSE IF kind = "file" /\ i \in env.init THEN [reg EXCEPT !.ret = <<"init", i>>]
     ELSE IF kind = "none" THEN [reg EXCEPT !.ret = <<"panic", i>>]
     ELSE [loggers |-> Append(reg.loggers, handler),
           toClose |-> IF kind \in {"file", "syslog"}
                       THEN Append(reg.toClose, val) ELSE reg.toClose,
           toReload |-> IF kind = "file"
                        THEN Append(reg.toReload, val) ELSE reg.toReload,
           filters |-> CopyFilters(reg.filters, modeFilters),
           nextId |-> reg.nextId + 1,
           ret |-> Running]

\* the loop over modes, from position i; returns nil when it runs to the end
RECURSIVE LoadLoop(_, _, _, _, _, _, _)
LoadLoop(reg, modes, i, cfg, env, defaultLevelName, defaultFilters) ==
  IF reg.ret # Running THEN reg
  ELSE IF i > Len(modes) THEN [reg EXCEPT !.ret = Nil]
  ELSE LoadLoop(LoadMode(reg, i, modes[i], cfg, env, defaultLevelName, defaultFilters),
                modes, i + 1, cfg, env, defaultLevelName, defaultFilters)

\* ReadLoggingConfig as it would be if it dropped the error of Close()
LoadAfterCloseAnyway(reg, c, modes, cfg, env) ==
  LoadLoop(reg, modes, 1, cfg, env,
           getLogLevelFromConfig(Str_log, Str_info, cfg).name,
           getFilters(FiltersKey(cfg, Str_log)))

\* what ReadLoggingConfig does once Close() has returned c: it returns c.err
\* when that is an error, and runs the loop over the modes otherwise
LoadAfterClose(reg, c, modes, cfg, env) ==
  IF c.err # Nil THEN [reg EXCEPT !.ret = c.err]
  ELSE LoadLoop(reg, modes, 1, cfg, env,
                getLogLevelFromConfig(Str_log, Str_info, cfg).name,
                getFilters(FiltersKey(cfg, Str_log)))

-----------------------------------------------------------------------------
(* New and the dispatch methods *)

\* New as it would be if it took every sink's maximum level, filter or not
NewMaxLevelOnly(logger) ==
  [name |-> logger,
   loggers |-> [i \in DOMAIN Root_loggers |->
                  [val |-> Root_loggers[i].val, allow |-> Root_loggers[i].maxLevel]]]

\* New(logger): one bound sink per entry of Root.loggers, in its order, each
\* filtered at the entry's level for logger, or else at its maximum level
New(logger) ==
  [name |-> logger,
   loggers |-> [i \in DOMAIN Root_loggers |->
                  [val |-> Root_loggers[i].val,
                   allow |-> IF logger \in DOMAIN Root_loggers[i].filters
                             THEN Root_loggers[i].filters[logger]
                             ELSE Root_loggers[i].maxLevel]]]

\* the sinks a dispatch would range over if it bound them at every call
BoundSinksLive(m) ==
  [i \in DOMAIN Root_loggers |->
     [val |-> Root_loggers[i].val,
      allow |-> IF m.name \in DOMAIN Root_loggers[i].filters
                THEN Root_loggers[i].filters[m.name]
                ELSE Root_loggers[i].maxLevel]]

\* the sinks a dispatch method of m ranges over
BoundSinks(m) == m.loggers

\* the loop of Warn/Debug/Error/Info over sinks: writing holds the backends
\* whose filter let the event through, failing the backends whose write
\* returns an error (which the loop drops)
\* One call of multilogger.val.Log on sink: out.invoked gets the sink,
\* out.reached its backend when the filter lets the event through, and
\* out.delivered its backend when the write then succeeds
LogTo(sink, sev, failing, out) ==
  [err |-> Nil,
   invoked |-> Append(out.invoked, sink),
   reached |-> IF LevelAllowed(sev, sink.allow)
               THEN Append(out.reached, sink.val) ELSE out.reached,
   delivered |-> IF LevelAllowed(sev, sink.allow) /\ sink.val.id \notin failing
                 THEN Append(out.delivered, sink.val) ELSE out.delivered]

NothingLogged == [err |-> Nil, invoked |-> << >>, reached |-> << >>, delivered |-> << >>]

\* the loop as it would be if it returned the first write error
RECURSIVE DispatchLoopFailFast(_, _, _, _, _)
DispatchLoopFailFast(sinks, i, sev, failing, out) ==
  IF i > Len(sinks) THEN out
  ELSE IF LevelAllowed(sev, sinks[i].allow) /\ sinks[i].val.id \in failing
       THEN [LogTo(sinks[i], sev, failing, out) EXCEPT !.err = <<"write", sinks[i].val.id>>]
       ELSE DispatchLoopFailFast(sinks, i + 1, sev, failing, LogTo(sinks[i], sev, failing, out))

\* the loop of a dispatch method as it would be if it ran from the last
\* bound sink to the first
RECURSIVE DispatchLoopBackwards(_, _, _, _, _)
DispatchLoopBackwards(sinks, i, sev, failing, out) ==
  IF i > Len(sinks) THEN out
  ELSE DispatchLoopBackwards(sinks, i + 1, sev, failing,
                             LogTo(sinks[Len(sinks) + 1 - i], sev, failing, out))

RECURSIVE DispatchLoop(_, _, _, _, _)
DispatchLoop(sinks, i, sev, failing, out) ==
  IF i > Len(sinks) THEN out
  ELSE DispatchLoop(sinks, i + 1, sev, failing, LogTo(sinks[i], sev, failing, out))

-----------------------------------------------------------------------------
(* Inputs *)

\* the file mode as it comes out of a list split at its commas: " file"
ModeChoices == {Str_console, Str_file_sp, Str_syslog, Str_smtp}
LogModeChoices == {Str_console, Str_file_sp}

ListsOver(S) == UNION { [1..n -> S] : n \in 0..MaxModes }

Name_x == <<"x">>
Name_y == <<"y">>
LoggerNames == {Name_x, Name_y}

NoLevels == {Str_empty}
\* filter lists that set x or y, for the default section and for the modes
Str_x_warn == Name_x \o <<":">> \o Str_warn
Str_x_error == Name_x \o <<":">> \o Str_error
Str_y_error == Name_y \o <<":">> \o Str_error
MergeFilterChoices == { << >>, <<Str_x_warn>>, <<Str_x_error>>, <<Str_y_error>> }

NoFilters == { << >> }
LevelChoices == {Str_empty, Str_DEBUG}
FilterChoices == { << >>, << Name_x \o <<":">> \o Str_error >> }

\* level names: the six of logLevels as they are, in upper case and with an
\* upper-case first letter, one that logLevels lacks, and none
LevelNameChoices ==
  DOMAIN logLevels
    \cup { AllUpper(s) : s \in DOMAIN logLevels }
    \cup { Capitalized(s) : s \in DOMAIN logLevels }
    \cup { Str_bogus, Str_empty }

\* filter strings: x with each of these level names, strings without a
\* separator, with two, with no name and with another name
FilterStrChoices ==
  { Name_x \o <<":">> \o l : l \in LevelNameChoices }
    \cup { Name_x, Str_empty, Name_y \o <<":">> \o Str_bogus,
           Name_x \o <<":">> \o Str_warn \o <<":">> \o Name_y,
           <<":">> \o Str_warn, Name_y \o <<":">> \o Str_info }

FilterStrArrays == UNION { [1..n -> FilterStrChoices] : n \in 0..MaxFilterStrs }

\* the inputs of level resolution: a level name, or a list of filter strings
ParseInputs ==
  { [levelName |-> l, filterStrArray |-> << >>] : l \in LevelNameChoices }
    \cup { [levelName |-> Str_empty, filterStrArray |-> a] : a \in FilterStrArrays }

\* a configuration file whose section "log" has the key level set to levelName
ConfigWithLevel(levelName) ==
  [secs |-> {}, level |-> (Str_log :> levelName), filters |-> (Str_log :> << >>)]

SecNames(modes) == { SecName(TrimSpace(modes[i])) : i \in DOMAIN modes }

\* the configuration files with the sections secs, a level and a filter
\* list for each of them and for the section "log"
ConfigsWith(secs, levels, filterLists) ==
  { [secs |-> secs, level |-> lv, filters |-> f] :
      lv \in [{Str_log} \cup secs -> levels],
      f \in [{Str_log} \cup secs -> filterLists] }

\* the sections of a file that has all of S or lacks one of them
LackingOne(S) == {S} \cup { S \ {x} : x \in S }

\* at most one of the backends S fails
AtMostOne(S) == {{}} \cup { {x} : x \in S }

\* the positions of modes at which a file backend is set up
FilePositions(modes) == { i \in DOMAIN modes : TrimSpace(modes[i]) = Str_file }

\* what the file system does to a load: nothing, or the first failure of
\* os.MkdirAll or of fileHandler.Init()
NoFailure == [mkdir |-> {}, init |-> {}]
Envs(modes) ==
  {NoFailure}
    \cup { [mkdir |-> {i}, init |-> {}] : i \in FilePositions(modes) }
    \cup { [mkdir |-> {}, init |-> {i}] : i \in FilePositions(modes) }

-----------------------------------------------------------------------------
(* The calls *)

\* no level name and no filter strings
NoInput == [levelName |-> Str_empty, filterStrArray |-> << >>]

\* the key filters of the sections of a configuration file without sections
NoFilterKeys == [k \in {} |-> << >>]

Call(op, ret, pre, invoked) ==
  [op |-> op, ret |-> ret, pre |-> pre, invoked |-> invoked,
   failing |-> {}, modes |-> << >>, secs |-> {}, env |-> NoFailure,
   firstId |-> nextId, sev |-> 0, reached |-> << >>, delivered |-> << >>,
   filterKeys |-> NoFilterKeys,
   arg |-> NoInput, out |-> << >>, diagnostics |-> 0]

NoLogger == [name |-> Str_empty, loggers |-> << >>]
NoLoad == [modes |-> << >>, i |-> 0, before |-> << >>]

Init ==
  /\ Root_loggers = << >>
  /\ loggersToClose = << >>
  /\ loggersToReload = << >>
  /\ filters = EmptyMap
  /\ nextId = 1
  /\ closeCount = << >>
  /\ ml = NoLogger
  /\ last = Call("init", Nil, << >>, << >>)
  /\ pc = "idle"
  /\ ld = NoLoad
  /\ seen = {}

Registry == [loggers |-> Root_loggers, toClose |-> loggersToClose,
             toReload |-> loggersToReload, filters |-> filters,
             nextId |-> nextId, ret |-> Running]

\* closeCount with an entry for every backend constructed up to id n - 1
Extended(count, n) == [id \in 1..(n - 1) |-> IF id \in DOMAIN count THEN count[id] ELSE 0]

\* Close() as it would be if it left loggersToClose as it is
CloseKeepingList ==
  /\ pc = "idle"
  /\ \E failing \in SUBSET Ids(loggersToClose) :
       \E c \in {CloseLoop(loggersToClose, 1, Nil, << >>, failing)} :
          /\ loggersToClose' = loggersToClose
          /\ closeCount' = Counted(closeCount, c.invoked)
          /\ last' = [Call("Close", c.err, loggersToClose, c.invoked)
                        EXCEPT !.failing = failing]
  /\ UNCHANGED <<Root_loggers, loggersToReload, filters, nextId, ml, pc, ld, seen>>

Close ==
  /\ pc = "idle"
  /\ \E failing \in SUBSET Ids(loggersToClose) :
       \E c \in {CloseLoop(loggersToClose, 1, Nil, << >>, failing)} :
          /\ loggersToClose' = << >>
          /\ closeCount' = Counted(closeCount, c.invoked)
          /\ last' = [Call("Close", c.err, loggersToClose, c.invoked)
                        EXCEPT !.failing = failing]
  /\ UNCHANGED <<Root_loggers, loggersToReload, filters, nextId, ml, pc, ld, seen>>

Reload ==
  /\ pc = "idle"
  /\ \E failing \in SUBSET Ids(loggersToReload) :
       \E r \in {ReloadLoop(loggersToReload, 1, << >>, failing)} :
          last' = [Call("Reload", r.err, loggersToReload, r.invoked)
                     EXCEPT !.failing = failing]
  /\ UNCHANGED <<Root_loggers, loggersToClose, loggersToReload, filters, nextId,
                 closeCount, ml, pc, ld, seen>>

\* ReadLoggingConfig as it would be if it did not call Close() first
ReadLoggingConfigKeepingOpen(modes, cfg, env, failing) ==
  \E reg \in {LoadAfterClose(Registry, [err |-> Nil, invoked |-> << >>], modes, cfg, env)} :
     /\ Root_loggers' = reg.loggers
     /\ loggersToClose' = reg.toClose
     /\ loggersToReload' = reg.toReload
     /\ filters' = reg.filters
     /\ nextId' = reg.nextId
     /\ closeCount' = Extended(closeCount, reg.nextId)
     /\ last' = [Call("ReadLoggingConfig", reg.ret, loggersToClose, << >>)
                   EXCEPT !.failing = failing, !.modes = modes,
                          !.secs = cfg.secs, !.env = env, !.filterKeys = cfg.filters]
     /\ pc' = IF reg.ret[1] = "panic" THEN "crashed" ELSE "idle"
     /\ UNCHANGED <<ml, ld, seen>>

\* ReadLoggingConfig(modes, logsPath, cfg), run from its first line to its
\* return: failing is the set of backends whose Close() fails
ReadLoggingConfig(modes, cfg, env, failing) ==
  \E c \in {CloseLoop(loggersToClose, 1, Nil, << >>, failing)} :
  \E reg \in {LoadAfterClose([Registry EXCEPT !.toClose = << >>], c, modes, cfg, env)} :
     /\ Root_loggers' = reg.loggers
     /\ loggersToClose' = reg.toClose
     /\ loggersToReload' = reg.toReload
     /\ filters' = reg.filters
     /\ nextId' = reg.nextId
     /\ closeCount' = Extended(Counted(closeCount, c.invoked), reg.nextId)
     /\ last' = [Call("ReadLoggingConfig", reg.ret, loggersToClose, c.invoked)
                   EXCEPT !.failing = failing, !.modes = modes,
                          !.secs = cfg.secs, !.env = env, !.filterKeys = cfg.filters]
     /\ pc' = IF reg.ret[1] = "panic" THEN "crashed" ELSE "idle"
     /\ UNCHANGED <<ml, ld, seen>>

\* a load of any list of modes, from a file that has their sections or
\* lacks one of them
Load ==
  /\ pc = "idle"
  /\ \E modes \in ListsOver(ModeChoices) :
       /\ nextId + Len(modes) - 1 <= MaxHandles
       /\ \E secs \in LackingOne(SecNames(modes)) :
            \E cfg \in ConfigsWith(secs, NoLevels, NoFilters), env \in Envs(modes),
               failing \in AtMostOne(Ids(loggersToClose)) :
              ReadLoggingConfig(modes, cfg, env, failing)

\* a load of console and file sinks, from a file that has their sections
\* and sets levels and filters
LoadLevels ==
  /\ pc = "idle"
  /\ \E modes \in ListsOver(LogModeChoices) :
       /\ nextId + Len(modes) - 1 <= MaxSinks
       /\ \E cfg \in ConfigsWith(SecNames(modes), LevelChoices, FilterChoices),
             failing \in AtMostOne(Ids(loggersToClose)) :
            ReadLoggingConfig(modes, cfg, NoFailure, failing)

\* a load of console and file sinks, from a file whose sections set
\* filters for the same and for different logger names
LoadFilters ==
  /\ pc = "idle"
  /\ \E modes \in ListsOver(LogModeChoices) :
       /\ nextId + Len(modes) - 1 <= MaxHandles
       /\ \E cfg \in ConfigsWith(SecNames(modes), NoLevels, MergeFilterChoices) :
            ReadLoggingConfig(modes, cfg, NoFailure, {})

\* New as it would be if it wrapped the handles of Root.loggers in place
\* instead of copies of them
NewCallInPlace ==
  /\ pc = "idle"
  /\ \E logger \in LoggerNames :
       /\ ml' = New(logger)
       /\ Root_loggers' = [i \in DOMAIN Root_loggers |->
                             [Root_loggers[i] EXCEPT !.maxLevel = New(logger).loggers[i].allow]]
       /\ last' = Call("New", Nil, << >>, << >>)
  /\ UNCHANGED <<loggersToClose, loggersToReload, filters, nextId,
                 closeCount, pc, ld, seen>>

NewCall ==
  /\ pc = "idle"
  /\ \E logger \in LoggerNames :
       /\ ml' = New(logger)
       /\ last' = Call("New", Nil, << >>, << >>)
  /\ UNCHANGED <<Root_loggers, loggersToClose, loggersToReload, filters, nextId,
                 closeCount, pc, ld, seen>>

\* ml.Debug, ml.Info, ml.Warn or ml.Error
Dispatch ==
  /\ pc = "idle"
  /\ ml # NoLogger
  /\ \E sev \in Severities :
     \E failing \in SUBSET { ml.loggers[i].val.id : i \in { j \in DOMAIN ml.loggers : LevelAllowed(sev, ml.loggers[j].allow) } } :
       \E d \in {DispatchLoop(BoundSinks(ml), 1, sev, failing, NothingLogged)} :
          last' = [Call("Dispatch", d.err, << >>, d.invoked)
                     EXCEPT !.sev = sev, !.reached = d.reached,
                            !.delivered = d.delivered, !.failing = failing]
  /\ UNCHANGED <<Root_loggers, loggersToClose, loggersToReload, filters, nextId,
                 closeCount, ml, pc, ld, seen>>

-----------------------------------------------------------------------------
(* A load with readers running beside it.  The load is cut where the code   *)
(* lets another goroutine in between two writes of Root.loggers: after      *)
(* Close() and after each iteration of the loop over modes.  No lock or     *)
(* atomic guards Root.loggers, so a reader gets the slice as the load has   *)
(* left it so far.                                                          *)

\* level resolution on its own: the registry is as after construction and
\* last.arg holds the input
ParseInit ==
  /\ Root_loggers = << >>
  /\ loggersToClose = << >>
  /\ loggersToReload = << >>
  /\ filters = EmptyMap
  /\ nextId = 1
  /\ closeCount = << >>
  /\ ml = NoLogger
  /\ \E input \in ParseInputs :
       last = [Call("init", Nil, << >>, << >>) EXCEPT !.arg = input]
  /\ pc = "idle"
  /\ ld = NoLoad
  /\ seen = {}

\* getLogLevelFromConfig("log", "info", cfg), the key level of the section
\* being last.arg.levelName
ResolveFromConfig ==
  /\ \E r \in {getLogLevelFromConfig(Str_log, Str_info, ConfigWithLevel(last.arg.levelName))} :
       last' = [Call("getLogLevelFromConfig", Nil, << >>, << >>)
                  EXCEPT !.arg = last.arg, !.out = r,
                         !.diagnostics = UnknownLevelDiagnostics(r.name)]
  /\ UNCHANGED <<Root_loggers, loggersToClose, loggersToReload, filters, nextId,
                 closeCount, ml, pc, ld, seen>>

\* getFilters(last.arg.filterStrArray)
ParseFilters ==
  /\ last' = [Call("getFilters", Nil, << >>, << >>)
                EXCEPT !.arg = last.arg,
                       !.out = getFilters(last.arg.filterStrArray),
                       !.diagnostics = getFiltersDiagnostics(last.arg.filterStrArray, 1)]
  /\ UNCHANGED <<Root_loggers, loggersToClose, loggersToReload, filters, nextId,
                 closeCount, ml, pc, ld, seen>>

LoadCall(ret) ==
  [Call("ReadLoggingConfig", ret, ld.closable, ld.invoked)
     EXCEPT !.failing = ld.failing, !.modes = ld.modes, !.secs = ld.cfg.secs,
            !.env = ld.env, !.firstId = ld.firstId, !.filterKeys = ld.cfg.filters]

\* ReadLoggingConfig up to the loop: Close(), the default level and filters
ConcBegin ==
  /\ pc = "idle"
  /\ \E modes \in ListsOver(LogModeChoices) :
       /\ nextId + Len(modes) - 1 <= MaxHandles
       /\ \E secs \in LackingOne(SecNames(modes)) :
            \E cfg \in ConfigsWith(secs, NoLevels, NoFilters), env \in Envs(modes),
               failing \in AtMostOne(Ids(loggersToClose)) :
            \E c \in {CloseLoop(loggersToClose, 1, Nil, << >>, failing)} :
              /\ loggersToClose' = << >>
              /\ closeCount' = Counted(closeCount, c.invoked)
              /\ ld' = [modes |-> modes, i |-> 1, cfg |-> cfg, env |-> env,
                        failing |-> failing, closable |-> loggersToClose,
                        invoked |-> c.invoked, firstId |-> nextId,
                        before |-> Root_loggers,
                        defaultLevelName |-> getLogLevelFromConfig(Str_log, Str_info, cfg).name,
                        defaultFilters |-> getFilters(FiltersKey(cfg, Str_log))]
              /\ seen' = {}
              /\ pc' = IF c.err # Nil THEN "idle" ELSE "loop"
              /\ last' = IF c.err # Nil
                         THEN [Call("ReadLoggingConfig", c.err, loggersToClose, c.invoked)
                                 EXCEPT !.failing = failing, !.modes = modes,
                                        !.secs = cfg.secs, !.env = env, !.filterKeys = cfg.filters]
                         ELSE last
  /\ UNCHANGED <<Root_loggers, loggersToReload, filters, nextId, ml>>

\* one iteration of the loop over modes, and the return out of it if any
ConcStep ==
  /\ pc = "loop"
  /\ ld.i <= Len(ld.modes)
  /\ \E reg \in {LoadMode(Registry, ld.i, ld.modes[ld.i], ld.cfg, ld.env,
                           ld.defaultLevelName, ld.defaultFilters)} :
       /\ Root_loggers' = reg.loggers
       /\ loggersToClose' = reg.toClose
       /\ loggersToReload' = reg.toReload
       /\ filters' = reg.filters
       /\ nextId' = reg.nextId
       /\ closeCount' = Extended(closeCount, reg.nextId)
       /\ ld' = [ld EXCEPT !.i = @ + 1]
       /\ pc' = CASE reg.ret = Running -> "loop"
                  [] reg.ret[1] = "panic" -> "crashed"
                  [] OTHER -> "idle"
       /\ last' = IF reg.ret = Running THEN last ELSE LoadCall(reg.ret)
  /\ UNCHANGED <<ml, seen>>

\* the return nil after the loop
ConcReturn ==
  /\ pc = "loop"
  /\ ld.i > Len(ld.modes)
  /\ pc' = "idle"
  /\ last' = LoadCall(Nil)
  /\ UNCHANGED <<Root_loggers, loggersToClose, loggersToReload, filters, nextId,
                 closeCount, ml, ld, seen>>

\* New(logger) on another goroutine
ConcNew ==
  /\ pc \in {"idle", "loop"}
  /\ \E logger \in LoggerNames : ml' = New(logger)
  /\ seen' = IF pc = "loop" THEN seen \cup {Root_loggers} ELSE seen
  /\ UNCHANGED <<Root_loggers, loggersToClose, loggersToReload, filters, nextId,
                 closeCount, last, pc, ld>>

\* Root.Debug, Root.Info, Root.Warn or Root.Error on another goroutine: the
\* call ranges over Root.loggers as it is when the call is made
ConcRootDispatch ==
  /\ pc = "loop"
  /\ seen' = seen \cup {Root_loggers}
  /\ UNCHANGED <<Root_loggers, loggersToClose, loggersToReload, filters, nextId,
                 closeCount, ml, last, pc, ld>>

Next == Load \/ Close \/ Reload

Spec == Init /\ [][Next]_vars

LogNext == LoadLevels \/ NewCall \/ Dispatch \/ Close \/ Reload

LogSpec == Init /\ [][LogNext]_vars

MergeNext == LoadFilters

MergeSpec == Init /\ [][MergeNext]_vars

ParseNext == ResolveFromConfig \/ ParseFilters

ParseSpec == ParseInit /\ [][ParseNext]_vars

ConcNext == ConcBegin \/ ConcStep \/ ConcReturn \/ ConcNew \/ ConcRootDispatch

ConcSpec == Init /\ [][ConcNext]_vars

-----------------------------------------------------------------------------
(* Properties *)

IsLoad == last.op = "ReadLoggingConfig"

\* the position in list of the first backend of S, 0 when there is none
FirstIn(list, S) ==
  IF \E i \in DOMAIN list : list[i].id \in S
  THEN CHOOSE i \in DOMAIN list :
         list[i].id \in S /\ \A j \in 1..(i - 1) : list[j].id \notin S
  ELSE 0

\* the position of the first mode of the last load that has no case
FirstUnknown ==
  IF \E i \in DOMAIN last.modes : KindOf(TrimSpace(last.modes[i])) = "none"
  THEN CHOOSE i \in DOMAIN last.modes :
         /\ KindOf(TrimSpace(last.modes[i])) = "none"
         /\ \A j \in 1..(i - 1) : KindOf(TrimSpace(last.modes[j])) # "none"
  ELSE 0

\* position i of the last load has a case, its section, and a file system
\* that does not fail
LoadsAt(i) ==
  /\ KindOf(TrimSpace(last.modes[i])) # "none"
  /\ SecName(TrimSpace(last.modes[i])) \in last.secs
  /\ i \notin last.env.mkdir \cup last.env.init

\* the backends the last load constructed
Built == nextId - last.firstId

\* the backends of a list of sink handles
Vals(handles) == [i \in DOMAIN handles |-> handles[i].val]

\* no backend constructed by the last load is in list
NoneOfLastLoad(list) == \A i \in DOMAIN list : list[i].id < last.firstId

\* C1: whenever ReadLoggingConfig returns nil, Root.loggers holds exactly one
\* handle per mode of that call, in the order of the modes, and no handle of
\* an earlier load.
C1_RegistryReflectsModes ==
  (IsLoad /\ last.ret = Nil) =>
     /\ Len(Root_loggers) = Len(last.modes)
     /\ \A i \in DOMAIN Root_loggers :
          /\ Root_loggers[i].val.kind = KindOf(TrimSpace(last.modes[i]))
          /\ Root_loggers[i].val.id >= last.firstId

\* C2: Close() invokes Close on every backend of loggersToClose, also after
\* one of them failed, returns the error of the first that fails (nil when
\* none does) and leaves loggersToClose empty.
C2_CloseIsBestEffort ==
  last.op = "Close" =>
     /\ last.invoked = last.pre
     /\ loggersToClose = << >>
     /\ last.ret = IF FirstIn(last.pre, last.failing) = 0 THEN Nil
                   ELSE <<"close", last.pre[FirstIn(last.pre, last.failing)].id>>

C2_Witness ==
  /\ last.op = "Close"
  /\ Len(last.pre) >= 2
  /\ {last.pre[1].id, last.pre[2].id} \subseteq last.failing
  /\ Len(last.invoked) = Len(last.pre)
  /\ last.ret = <<"close", last.pre[1].id>>
  /\ loggersToClose = << >>

\* C3: Reload() invokes Reload on the backends of loggersToReload in the
\* order they were registered and returns at the first that fails, with its
\* error: the backends after it are not invoked; when none fails all are
\* invoked and nil is returned.
C3_ReloadIsFailFast ==
  last.op = "Reload" =>
     LET k == FirstIn(last.pre, last.failing)
     IN /\ last.pre = loggersToReload
        /\ \A i, j \in DOMAIN last.pre : i < j => last.pre[i].id < last.pre[j].id
        /\ k = 0 => (last.invoked = last.pre /\ last.ret = Nil)
        /\ k > 0 => /\ last.invoked = SubSeq(last.pre, 1, k)
                    /\ last.ret = <<"reload", last.pre[k].id>>

C3_Witness ==
  /\ last.op = "Reload"
  /\ Len(last.pre) = 3
  /\ last.pre[1].id \notin last.failing
  /\ last.pre[2].id \in last.failing
  /\ last.invoked = SubSeq(last.pre, 1, 2)
  /\ last.ret = <<"reload", last.pre[2].id>>

\* C4 as claimed: when the Close() at the start of ReadLoggingConfig returns
\* an error, the load still constructs and registers a handle for every
\* enabled mode.
C4_LoadProceedsAfterCloseError ==
  (/\ IsLoad
   /\ FirstIn(last.pre, last.failing) > 0
   /\ \A i \in DOMAIN last.modes : LoadsAt(i)) =>
     /\ Built = Len(last.modes)
     /\ Len(Root_loggers) >= Len(last.modes)

\* C4 as amended: when the Close() at the start of ReadLoggingConfig returns
\* an error, ReadLoggingConfig returns that error at once: every backend of
\* loggersToClose was invoked, loggersToClose is empty, and no handle is
\* constructed or registered for any mode.
C4_CloseErrorAbortsLoad ==
  (IsLoad /\ FirstIn(last.pre, last.failing) > 0) =>
     /\ last.ret = <<"close", last.pre[FirstIn(last.pre, last.failing)].id>>
     /\ last.invoked = last.pre
     /\ loggersToClose = << >>
     /\ Built = 0
     /\ NoneOfLastLoad(Vals(Root_loggers))
     /\ NoneOfLastLoad(loggersToReload)

C4_Witness ==
  /\ IsLoad
  /\ FirstIn(last.pre, last.failing) > 0
  /\ Len(last.modes) >= 2
  /\ \A i \in DOMAIN last.modes : LoadsAt(i)
  /\ last.ret[1] = "close"
  /\ Built = 0

\* C5: a ReadLoggingConfig call that fails at its k-th mode (no section, no
\* log directory, no file handler) leaves no handle of its modes 1..k-1 in
\* Root.loggers, loggersToClose or loggersToReload.
C5_FailedLoadLeavesNothing ==
  (IsLoad /\ last.ret[1] \in {"nosection", "mkdir", "init"}) =>
     /\ NoneOfLastLoad(Vals(Root_loggers))
     /\ NoneOfLastLoad(loggersToClose)
     /\ NoneOfLastLoad(loggersToReload)

\* C6: a reader running beside a load that returns nil has seen Root.loggers
\* as it was before the load or as it is after it, and no list in between.
C6_NoPartialList ==
  (pc = "idle" /\ IsLoad /\ last.ret = Nil) =>
     \A s \in seen : s = ld.before \/ s = Root_loggers

\* C9 as claimed: an enabled mode that is not console, file or syslog is
\* skipped: the load does not fail or panic because of it and the other
\* modes are loaded.
C9_UnknownModeSkipped ==
  (/\ IsLoad
   /\ FirstIn(last.pre, last.failing) = 0
   /\ FirstUnknown > 0
   /\ \A i \in DOMAIN last.modes :
        KindOf(TrimSpace(last.modes[i])) # "none" => LoadsAt(i)) =>
     /\ last.ret = Nil
     /\ pc # "crashed"
     /\ Built = Cardinality({ i \in DOMAIN last.modes :
                                KindOf(TrimSpace(last.modes[i])) # "none" })

\* C9 as amended: an enabled mode that is not console, file or syslog is
\* never skipped. When the loop gets to it, at position k, ReadLoggingConfig
\* returns an error if the file has no section log.<mode> and panics if it
\* has one; either way no handle is constructed for it or for any mode after
\* it, and the handles of the modes before it stay registered.
C9_UnknownModeStopsLoad ==
  (/\ IsLoad
   /\ FirstIn(last.pre, last.failing) = 0
   /\ FirstUnknown > 0
   /\ \A i \in 1..(FirstUnknown - 1) : LoadsAt(i)) =>
     LET k == FirstUnknown
     IN /\ last.ret = IF SecName(TrimSpace(last.modes[k])) \in last.secs
                      THEN <<"panic", k>> ELSE <<"nosection", k>>
        /\ (pc = "crashed") <=> (last.ret[1] = "panic")
        /\ Built = k - 1
        /\ Len(Root_loggers) >= k - 1
        /\ \A i \in 1..(k - 1) :
             LET h == Root_loggers[Len(Root_loggers) - (k - 1) + i]
             IN /\ h.val.kind = KindOf(TrimSpace(last.modes[i]))
                /\ h.val.id = last.firstId + i - 1

C9_Witness ==
  /\ IsLoad
  /\ FirstUnknown = 2
  /\ SecName(TrimSpace(last.modes[2])) \in last.secs
  /\ last.ret = <<"panic", 2>>
  /\ pc = "crashed"
  /\ Built = 1

\* the handle of Root.loggers that has the backend val
HandleOf(val) == Root_loggers[CHOOSE j \in DOMAIN Root_loggers : Root_loggers[j].val = val]

InSeq(x, list) == \E i \in DOMAIN list : list[i] = x

\* the level the handle h sets for the logger name
LevelFor(h, name) == IF name \in DOMAIN h.filters THEN h.filters[name] ELSE h.maxLevel

\* C7: the value New returned is not changed by any later ReadLoggingConfig,
\* Close, Reload or dispatch call, and every dispatch on it goes to the sinks
\* it was created with, at the levels bound then.
C7_FrozenAtCreation ==
  [][(ml # NoLogger /\ last'.op # "New") =>
        /\ ml' = ml
        /\ last'.op = "Dispatch" => last'.invoked = ml.loggers]_vars

\* a dispatch on a logger made for a name before a load that added a sink
\* with a filter for that name: the event reaches a sink of the logger
\* below the level of that filter
C7_Witness ==
  /\ last.op = "Dispatch"
  /\ ml.loggers # << >>
  /\ last.invoked = ml.loggers
  /\ Len(Root_loggers) > Len(ml.loggers)
  /\ \A i \in DOMAIN ml.loggers : ml.name \notin DOMAIN Root_loggers[i].filters
  /\ \E j \in DOMAIN Root_loggers :
       /\ j > Len(ml.loggers)
       /\ ml.name \in DOMAIN Root_loggers[j].filters
       /\ last.sev < Root_loggers[j].filters[ml.name]
  /\ ml.name \in DOMAIN filters
  /\ last.reached = Vals(ml.loggers)

\* C8: an event dispatched on the logger New(name) made reaches the backend
\* of a bound sink iff its severity is at or above the sink's filter entry
\* for name when it has one, and at or above the sink's maximum level
\* otherwise.
C8_FilterElseMaxLevel ==
  last.op = "Dispatch" =>
     /\ Len(last.invoked) = Len(ml.loggers)
     /\ \A i \in DOMAIN ml.loggers :
          InSeq(ml.loggers[i].val, last.reached)
            <=> last.sev >= LevelFor(HandleOf(ml.loggers[i].val), ml.name)

\* default level info, file level debug: a debug event is dropped by the
\* console sink and gets to the file sink
C8_Witness ==
  /\ last.op = "Dispatch"
  /\ last.sev = DebugValue
  /\ \E i, j \in DOMAIN ml.loggers :
       /\ ml.loggers[i].val.kind = "console"
       /\ HandleOf(ml.loggers[i].val).maxLevel = AllowInfo
       /\ ml.name \notin DOMAIN HandleOf(ml.loggers[i].val).filters
       /\ ~InSeq(ml.loggers[i].val, last.reached)
       /\ ml.loggers[j].val.kind = "file"
       /\ HandleOf(ml.loggers[j].val).maxLevel = AllowDebug
       /\ InSeq(ml.loggers[j].val, last.reached)

\* C10: a dispatch returns no error; it calls every bound sink, in order,
\* also after the write of an earlier one failed, and the event is lost
\* only for the sinks that filter it or whose write fails.
C10_DispatchNeverFails ==
  last.op = "Dispatch" =>
     /\ last.ret = Nil
     /\ last.invoked = ml.loggers
     /\ \A i \in DOMAIN ml.loggers :
          /\ InSeq(ml.loggers[i].val, last.reached)
               <=> LevelAllowed(last.sev, ml.loggers[i].allow)
          /\ InSeq(ml.loggers[i].val, last.delivered)
               <=> (/\ LevelAllowed(last.sev, ml.loggers[i].allow)
                    /\ ml.loggers[i].val.id \notin last.failing)

C10_Witness ==
  /\ last.op = "Dispatch"
  /\ last.ret = Nil
  /\ Len(ml.loggers) = 2
  /\ last.reached = Vals(ml.loggers)
  /\ last.failing = {ml.loggers[1].val.id}
  /\ last.delivered = <<ml.loggers[2].val>>

\* the filter table of the default section of the last load's file
DefaultTable == getFilters(last.filterKeys[Str_log])

\* the filter table of the section of the mode at position j of the last load
ModeTable(j) == getFilters(last.filterKeys[SecName(TrimSpace(last.modes[j]))])

\* the handle the last load registered for its mode at position j
HandleAt(j) == Root_loggers[Len(Root_loggers) - Built + j]

\* C11: the filter table a load attaches to a mode's handle has the names of
\* the mode's table M and of the default table D and no others; a name of M
\* has M's level, a name of D that is not in M has D's level.
C11_ModeEntriesWinOverDefaults ==
  IsLoad =>
     \A j \in 1..Built :
        /\ DOMAIN HandleAt(j).filters = DOMAIN ModeTable(j) \cup DOMAIN DefaultTable
        /\ \A k \in DOMAIN ModeTable(j) : HandleAt(j).filters[k] = ModeTable(j)[k]
        /\ \A k \in DOMAIN DefaultTable \ DOMAIN ModeTable(j) :
             HandleAt(j).filters[k] = DefaultTable[k]

C11_Witness ==
  /\ IsLoad
  /\ Built = 2
  /\ DefaultTable = (Name_x :> AllowWarn)
  /\ ModeTable(1) = (Name_x :> AllowError)
  /\ ModeTable(2) = (Name_y :> AllowError)
  /\ HandleAt(1).filters = (Name_x :> AllowError)
  /\ HandleAt(2).filters = (Name_x :> AllowWarn) @@ (Name_y :> AllowError)

\* the filter table of the section of mode j of the last load has an entry
\* for name, and no mode before j has one
FirstToDefine(j, name) ==
  /\ name \in DOMAIN ModeTable(j)
  /\ \A i \in 1..(j - 1) : name \notin DOMAIN ModeTable(i)

\* C12: when two modes of a load both define a filter for a name, the global
\* filter table has the level of the first of them for that name after the
\* load, and the handle of each of the two has its own mode's level.
C12_FirstModeWinsGlobally ==
  (IsLoad /\ last.ret = Nil) =>
     \A i, j \in 1..Built : \A name \in LoggerNames :
        (i < j /\ FirstToDefine(i, name) /\ name \in DOMAIN ModeTable(j)) =>
           /\ name \in DOMAIN filters
           /\ filters[name] = ModeTable(i)[name]
           /\ HandleAt(i).filters[name] = ModeTable(i)[name]
           /\ HandleAt(j).filters[name] = ModeTable(j)[name]

\* the level the documentation gives a level name, whatever its letter case
DocumentedLevel(levelName) ==
  CASE ToLower(levelName) \in {Str_trace, Str_debug} -> AllowDebug
    [] ToLower(levelName) = Str_info -> AllowInfo
    [] ToLower(levelName) = Str_warn -> AllowWarn
    [] OTHER -> AllowError

\* levelName is one of the six severity names, in some letter case
Recognized(levelName) ==
  ToLower(levelName) \in {Str_trace, Str_debug, Str_info, Str_warn, Str_error, Str_critical}

\* the positions of the last call's filter strings that have a separator
Separated == { i \in DOMAIN last.arg.filterStrArray : Len(Split(last.arg.filterStrArray[i])) > 1 }

\* the name and the level name of the filter string at position i
NameAt(i) == Split(last.arg.filterStrArray[i])[1]
LevelNameAt(i) == Split(last.arg.filterStrArray[i])[2]

\* C13: level resolution gives every severity name, in any letter case, its
\* documented level without a diagnostic, and every other name the level
\* error with exactly one diagnostic, for the level key of a configuration
\* section as well as for the level of a filter string.
C13_ResolveAnyCase ==
  /\ (last.op = "getLogLevelFromConfig" /\ last.arg.levelName # Str_empty) =>
        /\ last.out.level = DocumentedLevel(last.arg.levelName)
        /\ last.diagnostics = IF Recognized(last.arg.levelName) THEN 0 ELSE 1
  /\ (last.op = "getFilters" /\ Len(last.arg.filterStrArray) = 1 /\ Separated = {1}) =>
        /\ last.out[NameAt(1)] = DocumentedLevel(LevelNameAt(1))
        /\ last.diagnostics = IF Recognized(LevelNameAt(1)) THEN 0 ELSE 1

\* C14 as stated: getFilters has an entry only for the names of strings with
\* a separator, and for every such string the entry of its name has the
\* level its level name resolves to, error when logLevels lacks it.
C14_EntryPerSeparatedString ==
  last.op = "getFilters" =>
     /\ \A name \in DOMAIN last.out : \E i \in Separated : NameAt(i) = name
     /\ \A i \in Separated :
          /\ NameAt(i) \in DOMAIN last.out
          /\ last.out[NameAt(i)] = getLogLevelFromString(LevelNameAt(i))

\* C14: getFilters has an entry only for the names of strings with a
\* separator, and one for the name of every such string; the entry has the
\* level that the level name of the last string with that name resolves to,
\* error when logLevels lacks it.
C14_LastStringWins ==
  last.op = "getFilters" =>
     /\ \A name \in DOMAIN last.out : \E i \in Separated : NameAt(i) = name
     /\ \A i \in Separated :
          /\ NameAt(i) \in DOMAIN last.out
          /\ (\A j \in Separated : j > i => NameAt(j) # NameAt(i)) =>
               /\ last.out[NameAt(i)] = getLogLevelFromString(LevelNameAt(i))
               /\ LevelNameAt(i) \notin DOMAIN logLevels =>
                    last.out[NameAt(i)] = AllowError

C14_Witness ==
  /\ last.op = "getFilters"
  /\ last.arg.filterStrArray = <<Name_x, Name_y \o <<":">> \o Str_bogus>>
  /\ last.out = (Name_y :> AllowError)

\* C15: a Close() that starts with loggersToClose empty, as every Close()
\* that comes right after a Close() does, returns nil and invokes Close on
\* no backend.
C15_CloseTwiceIsNoOp ==
  [][(last'.op = "Close" /\ (loggersToClose = << >> \/ last.op = "Close")) =>
        /\ last'.pre = << >>
        /\ last'.ret = Nil
        /\ last'.invoked = << >>
        /\ closeCount' = closeCount
        /\ loggersToClose' = << >>]_vars

C15_Witness ==
  /\ last.op = "Close"
  /\ last.pre = << >>
  /\ last.ret = Nil
  /\ last.invoked = << >>
  /\ \E id \in DOMAIN closeCount : closeCount[id] = 1
  /\ \A id \in DOMAIN closeCount : closeCount[id] <= 1

\* the backends with a Close method that are registered in Root.loggers
Closable == { Root_loggers[i].val : i \in { j \in DOMAIN Root_loggers :
                                            Root_loggers[j].val.kind \in {"file", "syslog"} } }

\* C16: every ReadLoggingConfig, whatever it returns, has invoked Close on
\* every backend that was in loggersToClose when it started, before it
\* constructed any backend; after it no closable backend registered by an
\* earlier call is left without a Close.
C16_LoadClosesFirst ==
  IsLoad =>
     /\ last.invoked = last.pre
     /\ \A i \in DOMAIN last.pre : closeCount[last.pre[i].id] >= 1
     /\ \A b \in Closable : b.id < last.firstId => closeCount[b.id] >= 1
     /\ \A b \in Closable : b.id >= last.firstId => closeCount[b.id] = 0

C16_Witness ==
  /\ IsLoad
  /\ last.ret[1] \in {"nosection", "mkdir", "init"}
  /\ Len(last.pre) = 2
  /\ last.invoked = last.pre
  /\ \A b \in Closable : closeCount[b.id] = 1

\* C17: Reload() invokes Reload on no backend on which Close has been
\* invoked: every backend of loggersToReload is one that Close() or a load
\* has not closed.
C17_ReloadOnlyOpenHandles ==
  /\ \A i \in DOMAIN loggersToReload : closeCount[loggersToReload[i].id] = 0
  /\ last.op = "Reload" =>
       \A i \in DOMAIN last.invoked : closeCount[last.invoked[i].id] = 0

\* the positions of list are in the order of construction of its backends
InOrderOfConstruction(list) ==
  \A i, j \in DOMAIN list : i < j => list[i].id < list[j].id

\* C18: a dispatch calls the bound sinks of the logger in their order, sink
\* i before sink j when i < j; that order is the order Root.loggers had when
\* New made the logger, and a load appends to Root.loggers in the order of
\* its modes.
C18_FanOutInRegistryOrder ==
  [][/\ last'.op = "Dispatch" =>
          /\ last'.invoked = ml.loggers
          /\ InOrderOfConstruction(Vals(last'.invoked))
          /\ InOrderOfConstruction(last'.reached)
          /\ InOrderOfConstruction(last'.delivered)
     /\ last'.op = "New" =>
          /\ Vals(ml'.loggers) = Vals(Root_loggers)
          /\ InOrderOfConstruction(Vals(ml'.loggers))
     /\ last'.op = "ReadLoggingConfig" =>
          /\ SubSeq(Root_loggers', 1, Len(Root_loggers)) = Root_loggers
          /\ Len(Root_loggers') = Len(Root_loggers) + (nextId' - nextId)
          /\ \A j \in 1..(nextId' - nextId) :
               /\ Root_loggers'[Len(Root_loggers) + j].val.id = nextId + j - 1
               /\ Root_loggers'[Len(Root_loggers) + j].val.kind
                    = KindOf(TrimSpace(last'.modes[j]))]_vars

C18_Witness ==
  /\ last.op = "Dispatch"
  /\ Len(ml.loggers) = 2
  /\ ml.loggers[1].val.kind = "file"
  /\ ml.loggers[2].val.kind = "console"
  /\ ml.loggers[1].val.id < ml.loggers[2].val.id
  /\ last.invoked = ml.loggers
  /\ last.delivered = Vals(ml.loggers)
  /\ Vals(Root_loggers) = Vals(ml.loggers)

\* C19: New leaves Root.loggers (the backend, the filter table and the
\* maximum level of every handle), loggersToClose, loggersToReload and the
\* global filter table as they are; the logger it returns is made from
\* Root.loggers and the name alone, whatever loggers New made before.
C19_NewLeavesRegistry ==
  [][last'.op = "New" =>
        /\ Root_loggers' = Root_loggers
        /\ loggersToClose' = loggersToClose
        /\ loggersToReload' = loggersToReload
        /\ filters' = filters
        /\ closeCount' = closeCount
        /\ Len(ml'.loggers) = Len(Root_loggers)
        /\ \A i \in DOMAIN Root_loggers :
             /\ ml'.loggers[i].val = Root_loggers[i].val
             /\ ml'.loggers[i].allow = LevelFor(Root_loggers[i], ml'.name)]_vars

\* New(y) on a registry of two handles, the first with a filter for x above
\* its maximum level and none for y
C19_Witness ==
  /\ last.op = "New"
  /\ ml.name = Name_y
  /\ Len(Root_loggers) = 2
  /\ Name_x \in DOMAIN Root_loggers[1].filters
  /\ Root_loggers[1].filters[Name_x] > Root_loggers[1].maxLevel
  /\ Name_y \notin DOMAIN Root_loggers[1].filters
  /\ ml.loggers[1].allow = Root_loggers[1].maxLevel

\* C20: loggersToClose holds, once each, exactly the file and syslog backends
\* that were constructed and on which no Close has been invoked yet, and
\* Close is invoked on no backend more than once.
C20_ClosableListIsExact ==
  /\ \A i \in DOMAIN loggersToClose : loggersToClose[i] \in Closable
  /\ \A i, j \in DOMAIN loggersToClose : i # j => loggersToClose[i] # loggersToClose[j]
  /\ Ids(loggersToClose) = { b.id : b \in { c \in Closable : closeCount[c.id] = 0 } }
  /\ \A id \in DOMAIN closeCount : closeCount[id] <= 1

\* after a load that closed a syslog backend, set up a file backend and
\* failed at its second mode
C20_Witness ==
  /\ IsLoad
  /\ last.ret[1] = "nosection"
  /\ Len(last.pre) = 1
  /\ last.pre[1].kind = "syslog"
  /\ closeCount[last.pre[1].id] = 1
  /\ Len(loggersToClose) = 1
  /\ loggersToClose[1].kind = "file"
  /\ closeCount[loggersToClose[1].id] = 0

====
